---- MODULE Spec2Model ----
(***************************************************************************)
(* Model of src/server.py: the aiohttp front end of WeasyPrint.            *)
(*                                                                         *)
(* render_pdf (POST /) stages the parts of a multipart upload in a         *)
(* tempfile.TemporaryDirectory, renders them with WeasyPrint under a       *)
(* URLFetcher bound to the staged paths, and streams the PDF back.         *)
(* render_pdf_url (GET /) renders a caller-supplied URL.                   *)
(*                                                                         *)
(* A path is a sequence of segments; an absolute path starts with the      *)
(* segment "/".  Two paths are the same string iff they are the same       *)
(* sequence, so "/tmp/w1/./a" and "/tmp/w1/a" are different strings that   *)
(* name the same file.                                                     *)
(*                                                                         *)
(* Every await of the handlers is a step boundary; the code between two    *)
(* awaits runs on the event loop without interleaving (Turn).              *)
(***************************************************************************)
EXTENDS Naturals, Sequences, FiniteSets

VARIABLES
    pc,           \* pc[r]: position of request r's handler task
    method,       \* method[r]: "POST" (render_pdf), "GET" (render_pdf_url)
    temp_dir,     \* temp_dir[r]: the handler's temp_dir local (None before the with)
    form_data,    \* form_data[r]: the dict name -> path, in insertion order
    part,         \* part[r]: the part whose body save_part_to_file is reading
    staged,       \* staged[r]: every file save_part_to_file opened, in arrival order
    valid_paths,  \* valid_paths[r]: URLFetcher.valid_paths of the request's fetcher
    attachments,  \* attachments[r]: the list handed to write_pdf
    outcome,      \* outcome[r]: what the handler returned or raised
    fetch,        \* the last call of the URLFetcher by the renderer
    files,        \* regular files on disk (symlink-free absolute paths)
    dirs,         \* temporary directories on disk
    quota         \* parts the clients of this run may still upload

vars == <<pc, method, temp_dir, form_data, part, staged, valid_paths,
          attachments, outcome, fetch, files, dirs, quota>>

----------------------------------------------------------------------------
(* Bounds *)

\* Parts uploaded (accepted and written to disk) by the one request of SpecOne.
MaxParts == 3

\* Parts uploaded by the concurrent requests of Spec, all together.
MaxSharedParts == 2

Requests == {"r1", "r2"}

\* Names mkdtemp may draw.
WsNames == {"w1", "w2"}

\* A part name is a sequence of tokens: "attachment.a" is <<"attachment.", "a">>.
PartNames ==
    { <<"html">>, <<"css">>, <<"attachment.", "a">>, <<"attachment.", "b">>,
      <<"asset.", "logo">>, <<"junk">> }

\* part.filename when the part declares none (None) or an empty one.
NoFilename == << >>

\* Declared filenames: plain, with a "." segment, with a ".." segment, absolute.
Filenames ==
    { <<"a">>, <<".", "a">>, <<"..", "x">>, <<"/", "var", "run", "x">>, NoFilename }

Schemes == {"data", "", "file", "http", "https", "ftp"}

\* Paths of SpecFetcher: allow-lists are drawn from KnownPaths, locators from UrlPaths.
KnownPaths ==
    { <<"/", "tmp", "w1", "a">>, <<"/", "tmp", "w1", ".", "a">>, <<"/", "tmp", "x">> }

UrlPaths == KnownPaths \cup { << >>, <<"a">>, <<"..", "secret">>, <<"/", "etc", "passwd">> }

----------------------------------------------------------------------------
(* The file system the process runs in *)

None == << >>

Cwd == <<"/", "app">>

\* tempfile.gettempdir()
TmpDir == <<"/", "tmp">>

\* Symbolic links of the host: /var/run -> /run.
SymlinkAt == <<"/", "var", "run">>
SymlinkTo == <<"/", "run">>

StaticDirs == { <<"/">>, Cwd, TmpDir, <<"/", "var">>, SymlinkTo }

isabs(p) == Len(p) > 0 /\ p[1] = "/"

\* os.path.join(directory, filename)
join(directory, filename) ==
    IF isabs(filename) THEN filename ELSE directory \o filename

Front(s) == SubSeq(s, 1, Len(s) - 1)

RECURSIVE NormFrom(_, _)
NormFrom(acc, rest) ==
    IF rest = << >> THEN acc
    ELSE LET s == Head(rest) IN
         IF s = "." \/ s = "/" THEN NormFrom(acc, Tail(rest))
         ELSE IF s = ".."
              THEN IF acc = <<"/">> THEN NormFrom(acc, Tail(rest))
                   ELSE IF acc = << >> \/ acc[Len(acc)] = ".."
                        THEN NormFrom(Append(acc, ".."), Tail(rest))
                        ELSE NormFrom(Front(acc), Tail(rest))
              ELSE NormFrom(Append(acc, s), Tail(rest))

\* os.path.normpath: lexical, symbolic links are not looked at
normpath(p) == IF isabs(p) THEN NormFrom(<<"/">>, Tail(p)) ELSE NormFrom(<< >>, p)

\* os.path.abspath
abspath(p) == normpath(join(Cwd, p))

RECURSIVE WalkFrom(_, _)
WalkFrom(acc, rest) ==
    IF rest = << >> THEN acc
    ELSE LET s == Head(rest) IN
         IF s = "." \/ s = "/" THEN WalkFrom(acc, Tail(rest))
         ELSE IF s = ".."
              THEN WalkFrom(IF acc = <<"/">> THEN acc ELSE Front(acc), Tail(rest))
              ELSE LET nxt == Append(acc, s) IN
                   WalkFrom(IF nxt = SymlinkAt THEN SymlinkTo ELSE nxt, Tail(rest))

\* The file a path names: absolute and symlink-free (what the kernel opens).
realpath(p) == WalkFrom(<<"/">>, Tail(join(Cwd, p)))

IsPrefix(d, p) == Len(d) <= Len(p) /\ SubSeq(p, 1, Len(d)) = d

\* p lies beneath directory d
Inside(d, p) == Len(d) < Len(p) /\ IsPrefix(d, p)

----------------------------------------------------------------------------
(* URLFetcher *)

Delegated == "default_url_fetcher"
NotKnown == "ValueError: Only known path allowed"
NotExternal == "ValueError: External resources are not allowed"

\* URLFetcher.__call__ without "and parsed.path"
URLFetcherAnyPath(paths, url) ==
    IF url.scheme = "data" THEN Delegated
    ELSE IF url.scheme \in {"", "file"}
         THEN IF abspath(url.path) \in paths THEN Delegated ELSE NotKnown
         ELSE NotExternal

\* URLFetcher.__call__ without the data branch
URLFetcherNoData(paths, url) ==
    IF url.scheme \in {"", "file"} /\ url.path # << >>
    THEN IF abspath(url.path) \in paths THEN Delegated ELSE NotKnown
    ELSE NotExternal

\* URLFetcher.__call__ on urlparse(url) = [scheme, path]
URLFetcher(paths, url) ==
    IF url.scheme = "data" THEN Delegated
    ELSE IF url.scheme \in {"", "file"} /\ url.path # << >>
         THEN IF abspath(url.path) \in paths THEN Delegated ELSE NotKnown
         ELSE NotExternal

----------------------------------------------------------------------------
(* The form_data dict *)

Keys(d) == { d[i].name : i \in DOMAIN d }

Values(d) == { d[i].path : i \in DOMAIN d }

\* d.setdefault(k, v): the first value stays
DictSetDefault(d, k, v) ==
    IF k \in Keys(d) THEN d ELSE Append(d, [name |-> k, path |-> v])

\* d[k] = v: a new key goes last, an existing key keeps its place
DictSet(d, k, v) ==
    IF k \in Keys(d)
    THEN [i \in DOMAIN d |-> IF d[i].name = k THEN [name |-> k, path |-> v] ELSE d[i]]
    ELSE Append(d, [name |-> k, path |-> v])

startswith(name, prefix) == Len(name) >= 1 /\ name[1] = prefix

\* the condition of render_pdf under which a part is saved
Accepted(name) ==
    \/ name \in { <<"html">>, <<"css">> }
    \/ startswith(name, "attachment.")
    \/ startswith(name, "asset.")

RECURSIVE AttachmentsFrom(_)
AttachmentsFrom(d) ==
    IF d = << >> THEN << >>
    ELSE IF startswith(Head(d).name, "attachment.")
         THEN <<Head(d).path>> \o AttachmentsFrom(Tail(d))
         ELSE AttachmentsFrom(Tail(d))

\* the attachments comprehension of render_pdf
Attachments(d) == AttachmentsFrom(d)

----------------------------------------------------------------------------
(* Files and directories *)

AllDirs == StaticDirs \cup dirs

\* open(filename, 'wb') succeeds
CanOpen(p) ==
    /\ p # << >>
    /\ realpath(p) \notin AllDirs
    /\ Front(realpath(p)) \in AllDirs

\* os.rmdir in place of the recursive removal: entries beneath d stay
rmdir(d, paths) == paths \ {d}

\* what TemporaryDirectory.__exit__ leaves of a set of files or directories
rmtree(d, paths) == { p \in paths : ~IsPrefix(d, p) }

\* tempfile.mkdtemp(): a name no directory carries yet.  The names are drawn at
\* random and are interchangeable, so one unused name stands for them all.
mkdtemp == CHOOSE d \in { TmpDir \o <<n>> : n \in WsNames } : d \notin dirs

pdf_filename(r) == join(temp_dir[r], <<"output.pdf">>)

----------------------------------------------------------------------------
(* Outcomes of a handler *)

NoOutcome == [kind |-> "none", status |-> 0, text |-> ""]

Response(status, text) == [kind |-> "response", status |-> status, text |-> text]

Raised(where) == [kind |-> "raised", status |-> 0, text |-> where]

NoUrl == [scheme |-> "", path |-> << >>]

NoFetch == [r |-> "", url |-> NoUrl, result |-> "none"]

NoPart == [name |-> << >>, filename |-> << >>]

\* Code between two awaits runs without interleaving.
SyncStates == {"ingested", "loaded_html", "styled"}

Turn(r) == \A q \in Requests \ {r} : pc[q] \notin SyncStates

\* The state after construction: no request has arrived, nothing is on disk.
Start(arriving, parts) ==
    /\ pc = [r \in Requests |-> IF r \in arriving THEN "idle" ELSE "absent"]
    /\ method = [r \in Requests |-> ""]
    /\ temp_dir = [r \in Requests |-> None]
    /\ form_data = [r \in Requests |-> << >>]
    /\ part = [r \in Requests |-> NoPart]
    /\ staged = [r \in Requests |-> << >>]
    /\ valid_paths = [r \in Requests |-> {}]
    /\ attachments = [r \in Requests |-> << >>]
    /\ outcome = [r \in Requests |-> NoOutcome]
    /\ fetch = NoFetch
    /\ files = {}
    /\ dirs = {}
    /\ quota = parts

\* Concurrent requests.
Init == Start(Requests, MaxSharedParts)

\* One request.
InitOne == Start({"r1"}, MaxParts)

\* The handler returns or raises: its locals are gone.
Return(r, out) ==
    /\ pc' = [pc EXCEPT ![r] = "done"]
    /\ outcome' = [outcome EXCEPT ![r] = out]
    /\ form_data' = [form_data EXCEPT ![r] = << >>]
    /\ part' = [part EXCEPT ![r] = NoPart]
    /\ staged' = [staged EXCEPT ![r] = << >>]
    /\ valid_paths' = [valid_paths EXCEPT ![r] = {}]
    /\ attachments' = [attachments EXCEPT ![r] = << >>]
    /\ fetch' = NoFetch
    /\ UNCHANGED quota

\* The handler returns or raises inside the with block: the directory is removed.
Leave(r, out) ==
    /\ Return(r, out)
    /\ files' = rmtree(temp_dir[r], files)
    /\ dirs' = rmtree(temp_dir[r], dirs)
    /\ UNCHANGED <<method, temp_dir>>

\* with tempfile.TemporaryDirectory() as temp_dir
Enter(r) ==
    LET d == mkdtemp IN
        /\ temp_dir' = [temp_dir EXCEPT ![r] = d]
        /\ dirs' = dirs \cup {d}

\* the with block is entered and left within one step
EnterAndLeave(r, out) ==
    /\ LET d == mkdtemp IN
         /\ temp_dir' = [temp_dir EXCEPT ![r] = d]
         /\ files' = rmtree(d, files)
         /\ dirs' = rmtree(d, dirs \cup {d})
    /\ Return(r, out)

----------------------------------------------------------------------------
(* render_pdf *)

\* lines 48-53
BadContentType(r) ==
    /\ pc[r] = "idle" /\ Turn(r)
    /\ Return(r, Response(400, "Multipart request required."))
    /\ method' = [method EXCEPT ![r] = "POST"]
    /\ UNCHANGED <<temp_dir, files, dirs>>

\* lines 55-59: the reader, the directory, the first await of reader.next()
BeginPost(r) ==
    /\ pc[r] = "idle" /\ Turn(r)
    /\ Enter(r)
    /\ pc' = [pc EXCEPT ![r] = "reading"]
    /\ method' = [method EXCEPT ![r] = "POST"]
    /\ UNCHANGED <<form_data, part, staged, valid_paths, attachments, outcome,
                   fetch, files, quota>>

\* lines 59-68: a part whose name is none of the recognised ones is skipped
NextPartIgnored(r) ==
    /\ pc[r] = "reading" /\ Turn(r)
    /\ quota > 0
    /\ \E name \in PartNames : ~Accepted(name)
    /\ quota' = quota - 1
    /\ UNCHANGED <<pc, method, temp_dir, form_data, part, staged, valid_paths,
                   attachments, outcome, fetch, files, dirs>>

\* lines 59-69, 99-102: an accepted part; its file is opened, the first chunk awaited
NextPartOpen(r) ==
    /\ pc[r] = "reading" /\ Turn(r)
    /\ quota > 0
    /\ \E name \in PartNames, fname \in Filenames :
         LET filename == join(temp_dir[r], fname) IN
         /\ Accepted(name)
         /\ fname # NoFilename
         /\ CanOpen(filename)
         /\ part' = [part EXCEPT ![r] = [name |-> name, filename |-> filename]]
         /\ staged' = [staged EXCEPT ![r] = Append(@, [name |-> name, path |-> filename])]
         /\ files' = files \cup {realpath(filename)}
    /\ pc' = [pc EXCEPT ![r] = "saving"]
    /\ quota' = quota - 1
    /\ UNCHANGED <<method, temp_dir, form_data, valid_paths, attachments, outcome,
                   fetch, dirs>>

\* lines 99-100: os.path.join or open raises (no filename, a directory, no parent)
NextPartOpenFails(r) ==
    /\ pc[r] = "reading" /\ Turn(r)
    /\ quota > 0
    /\ \E name \in PartNames, fname \in Filenames :
         /\ Accepted(name)
         /\ fname = NoFilename \/ ~CanOpen(join(temp_dir[r], fname))
    /\ Leave(r, Raised("open"))

\* line 59: reader.next() raises (malformed body, client gone, task cancelled)
NextPartFails(r) ==
    /\ pc[r] = "reading" /\ Turn(r)
    /\ Leave(r, Raised("reader.next"))

\* lines 101-106, 69: the body is written, the path stored under the part's name
SavePart(r) ==
    /\ pc[r] = "saving" /\ Turn(r)
    /\ form_data' = [form_data EXCEPT ![r] = DictSet(@, part[r].name, part[r].filename)]
    /\ part' = [part EXCEPT ![r] = NoPart]
    /\ pc' = [pc EXCEPT ![r] = "reading"]
    /\ UNCHANGED <<method, temp_dir, staged, valid_paths, attachments, outcome,
                   fetch, files, dirs, quota>>

\* line 102: part.read_chunk raises (client gone, task cancelled)
SavePartFails(r) ==
    /\ pc[r] = "saving" /\ Turn(r)
    /\ Leave(r, Raised("read_chunk"))

\* lines 61-62: the stream is exhausted
NextPartNone(r) ==
    /\ pc[r] = "reading" /\ Turn(r)
    /\ pc' = [pc EXCEPT ![r] = "ingested"]
    /\ UNCHANGED <<method, temp_dir, form_data, part, staged, valid_paths,
                   attachments, outcome, fetch, files, dirs, quota>>

\* lines 71-73
MissingHtml(r) ==
    /\ pc[r] = "ingested"
    /\ <<"html">> \notin Keys(form_data[r])
    /\ Leave(r, Response(400, "No html file provided."))

\* line 75: HTML(filename=..., url_fetcher=URLFetcher(form_data.values()))
LoadDocument(r) ==
    /\ pc[r] = "ingested"
    /\ <<"html">> \in Keys(form_data[r])
    /\ valid_paths' = [valid_paths EXCEPT ![r] = Values(form_data[r])]
    /\ pc' = [pc EXCEPT ![r] = "loaded_html"]
    /\ UNCHANGED <<method, temp_dir, form_data, part, staged, attachments, outcome,
                   fetch, files, dirs, quota>>

\* line 75: the renderer raises while it loads the document
LoadDocumentFails(r) ==
    /\ pc[r] = "ingested"
    /\ <<"html">> \in Keys(form_data[r])
    /\ Leave(r, Raised("HTML"))

\* lines 76-85: the style sheet (uploaded or built in), the attachments
LoadStylesheet(r) ==
    /\ pc[r] = "loaded_html"
    /\ attachments' = [attachments EXCEPT ![r] = Attachments(form_data[r])]
    /\ pc' = [pc EXCEPT ![r] = "styled"]
    /\ UNCHANGED <<method, temp_dir, form_data, part, staged, valid_paths, outcome,
                   fetch, files, dirs, quota>>

\* line 77: the renderer raises while it loads the uploaded style sheet
LoadStylesheetFails(r) ==
    /\ pc[r] = "loaded_html"
    /\ <<"css">> \in Keys(form_data[r])
    /\ Leave(r, Raised("CSS"))

\* Locators a document of request r may make the renderer dereference: local ones
\* (no path, a traversal, the staged files), a data URI, a network address.
LocatorPaths(r) ==
    { << >>, <<"..", "secret">> } \cup { staged[r][i].path : i \in DOMAIN staged[r] }

Locators(r) ==
    { [scheme |-> s, path |-> p] : s \in {"", "file"}, p \in LocatorPaths(r) }
    \cup { [scheme |-> "data", path |-> <<"image/png;base64,AAAA">>],
           [scheme |-> "http", path |-> <<"/", "x.png">>] }

\* lines 28-40: the renderer calls the fetcher while write_pdf runs
Fetch(r) ==
    /\ pc[r] = "styled"
    /\ fetch = NoFetch
    /\ \E url \in Locators(r) :
         fetch' = [r |-> r, url |-> url, result |-> URLFetcher(valid_paths[r], url)]
    /\ UNCHANGED <<pc, method, temp_dir, form_data, part, staged, valid_paths,
                   attachments, outcome, files, dirs, quota>>

\* the renderer takes the fetcher's answer and goes on
Fetched(r) ==
    /\ pc[r] = "styled"
    /\ fetch # NoFetch
    /\ fetch' = NoFetch
    /\ UNCHANGED <<pc, method, temp_dir, form_data, part, staged, valid_paths,
                   attachments, outcome, files, dirs, quota>>

\* lines 87-93: write_pdf raises
WritePdfFails(r) ==
    /\ pc[r] = "styled"
    /\ Leave(r, Response(500, "PDF generation failed."))

\* lines 87-89, 95, 110-119: write_pdf returns, the response is being prepared
WritePdf(r) ==
    /\ pc[r] = "styled"
    /\ files' = files \cup {realpath(pdf_filename(r))}
    /\ pc' = [pc EXCEPT ![r] = "prepare"]
    /\ fetch' = NoFetch
    /\ UNCHANGED <<method, temp_dir, form_data, part, staged, valid_paths,
                   attachments, outcome, dirs, quota>>

----------------------------------------------------------------------------
(* stream_file, stream_file_ext *)

\* lines 119-126, 149-156: the headers are out, the chunks are being written
Prepared(r) ==
    /\ pc[r] = "prepare" /\ Turn(r)
    /\ pc' = [pc EXCEPT ![r] = "streaming"]
    /\ UNCHANGED <<method, temp_dir, form_data, part, staged, valid_paths,
                   attachments, outcome, fetch, files, dirs, quota>>

\* lines 128-129, 158-159: write_eof, the response is returned
Streamed(r) ==
    /\ pc[r] = "streaming" /\ Turn(r)
    /\ Leave(r, Response(200, "application/pdf"))

\* prepare, open, write or write_eof raises (client gone, task cancelled)
StreamFails(r) ==
    /\ pc[r] \in {"prepare", "streaming"} /\ Turn(r)
    /\ Leave(r, Raised("stream"))

----------------------------------------------------------------------------
(* render_pdf_url *)

\* line 165: no url parameter, KeyError before the directory exists
GetMissingUrl(r) ==
    /\ pc[r] = "idle" /\ Turn(r)
    /\ Return(r, Raised("query"))
    /\ method' = [method EXCEPT ![r] = "GET"]
    /\ UNCHANGED <<temp_dir, files, dirs>>

\* lines 172-173: HTML(url) raises
GetLoadFails(r) ==
    /\ pc[r] = "idle" /\ Turn(r)
    /\ EnterAndLeave(r, Raised("HTML"))
    /\ method' = [method EXCEPT ![r] = "GET"]

\* lines 172-182: write_pdf raises
GetWritePdfFails(r) ==
    /\ pc[r] = "idle" /\ Turn(r)
    /\ EnterAndLeave(r, Response(500, "PDF generation failed."))
    /\ method' = [method EXCEPT ![r] = "GET"]

\* lines 172-178, 184, 140-149: write_pdf returns, the response is being prepared
GetWritePdf(r) ==
    /\ pc[r] = "idle" /\ Turn(r)
    /\ LET d == mkdtemp IN
         /\ temp_dir' = [temp_dir EXCEPT ![r] = d]
         /\ dirs' = dirs \cup {d}
         /\ files' = files \cup {realpath(join(d, <<"output.pdf">>))}
    /\ pc' = [pc EXCEPT ![r] = "prepare"]
    /\ method' = [method EXCEPT ![r] = "GET"]
    /\ UNCHANGED <<form_data, part, staged, valid_paths, attachments, outcome, fetch,
                   quota>>

----------------------------------------------------------------------------

Next ==
    \E r \in Requests :
        \/ BadContentType(r)
        \/ BeginPost(r)
        \/ NextPartIgnored(r)
        \/ NextPartOpen(r)
        \/ NextPartOpenFails(r)
        \/ NextPartFails(r)
        \/ SavePart(r)
        \/ SavePartFails(r)
        \/ NextPartNone(r)
        \/ MissingHtml(r)
        \/ LoadDocument(r)
        \/ LoadDocumentFails(r)
        \/ LoadStylesheet(r)
        \/ LoadStylesheetFails(r)
        \/ Fetch(r)
        \/ Fetched(r)
        \/ WritePdfFails(r)
        \/ WritePdf(r)
        \/ Prepared(r)
        \/ Streamed(r)
        \/ StreamFails(r)
        \/ GetMissingUrl(r)
        \/ GetLoadFails(r)
        \/ GetWritePdfFails(r)
        \/ GetWritePdf(r)

Spec == Init /\ [][Next]_vars

SpecOne == InitOne /\ [][Next]_vars

----------------------------------------------------------------------------
(* URLFetcher on its own: every allow-list, every locator *)

InitFetcher ==
    /\ pc = [r \in Requests |-> "absent"]
    /\ method = [r \in Requests |-> ""]
    /\ temp_dir = [r \in Requests |-> None]
    /\ form_data = [r \in Requests |-> << >>]
    /\ part = [r \in Requests |-> NoPart]
    /\ staged = [r \in Requests |-> << >>]
    /\ valid_paths \in [Requests -> SUBSET KnownPaths]
    /\ attachments = [r \in Requests |-> << >>]
    /\ outcome = [r \in Requests |-> NoOutcome]
    /\ fetch = NoFetch
    /\ files = {}
    /\ dirs = {}
    /\ quota = 0

\* lines 28-40
Call(r) ==
    /\ \E scheme \in Schemes, path \in UrlPaths :
         LET url == [scheme |-> scheme, path |-> path] IN
         fetch' = [r |-> r, url |-> url, result |-> URLFetcher(valid_paths[r], url)]
    /\ UNCHANGED <<pc, method, temp_dir, form_data, part, staged, valid_paths,
                   attachments, outcome, files, dirs, quota>>

NextFetcher == \E r \in Requests : Call(r)

SpecFetcher == InitFetcher /\ [][NextFetcher]_vars

----------------------------------------------------------------------------
(* Properties *)

InFlight(r) == pc[r] \notin {"absent", "idle", "done"}

Called == fetch.result # "none"

Local(url) == url.scheme \in {"", "file"}

\* C1: whenever a handler that made a temporary directory returns or raises,
\* the directory and every file beneath it are gone.
CleanupOnEveryExit ==
    [][\A r \in Requests :
          (pc[r] # "done" /\ pc'[r] = "done" /\ temp_dir'[r] # None)
          => /\ temp_dir'[r] \notin dirs'
             /\ \A f \in files' : ~IsPrefix(temp_dir'[r], f)]_vars

\* a request cancelled while the body of a part was being written, its directory gone
CleanupWitness ==
    \E r \in Requests :
        /\ pc[r] = "done" /\ outcome[r] = Raised("read_chunk")
        /\ temp_dir[r] # None /\ temp_dir[r] \notin dirs
        /\ quota < MaxParts

\* C2: a local locator with a path whose symlink-free absolute form is not in
\* the allow-list is refused with "Only known path allowed".
FetcherRefusesNonCanonical ==
    (Called /\ Local(fetch.url) /\ fetch.url.path # << >>
        /\ realpath(fetch.url.path) \notin valid_paths[fetch.r])
    => fetch.result = NotKnown

\* C3: a locator of a scheme other than data, "" and file, and a local locator
\* without a path, is refused with "External resources are not allowed".
FetcherRefusesExternal ==
    (Called /\ \/ fetch.url.scheme \notin {"data", "", "file"}
               \/ Local(fetch.url) /\ fetch.url.path = << >>)
    => fetch.result = NotExternal

\* a file: locator without a path was refused although the allow-list is not empty
RefusesExternalWitness ==
    /\ Called /\ fetch.url = [scheme |-> "file", path |-> << >>]
    /\ fetch.result = NotExternal
    /\ valid_paths[fetch.r] # {}

\* C4: a data: locator is handed to the default loader, whatever the allow-list.
FetcherDelegatesData ==
    (Called /\ fetch.url.scheme = "data") => fetch.result = Delegated

\* a data: locator was handed on under the empty allow-list
DelegatesDataWitness ==
    /\ Called /\ fetch.url.scheme = "data" /\ fetch.result = Delegated
    /\ valid_paths[fetch.r] = {}

\* C5: when the part stream of a POST ends without an html part, the answer is
\* 400 "No html file provided." and no file the request wrote is left on disk.
MissingHtmlLeavesNothing ==
    [][\A r \in Requests :
          (method[r] = "POST" /\ pc[r] = "ingested" /\ pc'[r] # "ingested"
              /\ \A i \in DOMAIN staged[r] : staged[r][i].name # <<"html">>)
          => /\ outcome'[r] = Response(400, "No html file provided.")
             /\ \A i \in DOMAIN staged[r] : realpath(staged[r][i].path) \notin files']_vars

\* C6: once ingestion has produced an html part, a failure of the renderer
\* (loading the document, loading the style sheet, writing the PDF) ends the
\* handler with 500 "PDF generation failed." and never as a raised exception.
RendererFailureIs500 ==
    [][\A r \in Requests :
          (method[r] = "POST" /\ pc[r] \in SyncStates /\ pc'[r] = "done"
              /\ <<"html">> \in Keys(form_data[r]))
          => outcome'[r] = Response(500, "PDF generation failed.")]_vars

\* the files request r has written so far
Written(r) ==
    { realpath(staged[r][i].path) : i \in DOMAIN staged[r] }
    \cup (IF pc[r] \in {"prepare", "streaming"} THEN {realpath(pdf_filename(r))} ELSE {})

\* C7: two requests in flight never write the same file.
NoSharedFile ==
    \A r \in Requests : \A q \in Requests \ {r} :
        (InFlight(r) /\ InFlight(q)) => Written(r) \cap Written(q) = {}

\* C8: every path save_part_to_file has written to and stored in the mapping
\* lies inside the request's temporary directory.
StagedInsideWorkspace ==
    \A r \in Requests : \A i \in DOMAIN form_data[r] :
        Inside(temp_dir[r], realpath(form_data[r][i].path))

\* C9: when the renderer runs, the allow-list holds the path of every part
\* staged by the request, and a local locator with such a path is let through.
AllowListCoversStaged ==
    \A r \in Requests :
        pc[r] = "styled" =>
            \A i \in DOMAIN staged[r] :
                /\ staged[r][i].path \in valid_paths[r]
                /\ URLFetcher(valid_paths[r], [scheme |-> "file", path |-> staged[r][i].path])
                       = Delegated

IsAttachment(s) == startswith(s.name, "attachment.")

RECURSIVE Select(_, _)
\* the paths of the entries of st whose index satisfies Keep, in order
Select(st, keep) ==
    IF st = << >> THEN << >>
    ELSE Select(Front(st), keep)
         \o (IF Len(st) \in keep THEN <<st[Len(st)].path>> ELSE << >>)

\* the path of the last part staged under the name of part i
LastUnder(st, i) ==
    st[CHOOSE j \in DOMAIN st :
          /\ st[j].name = st[i].name
          /\ \A k \in DOMAIN st : st[k].name = st[i].name => k <= j].path

RECURSIVE ByFirstArrival(_, _)
\* for every attachment name, at the place of its first part, its last path
ByFirstArrival(st, i) ==
    IF i > Len(st) THEN << >>
    ELSE (IF IsAttachment(st[i]) /\ \A k \in 1..(i - 1) : st[k].name # st[i].name
          THEN <<LastUnder(st, i)>> ELSE << >>)
         \o ByFirstArrival(st, i + 1)

Rendering(r) == pc[r] \in {"styled", "prepare", "streaming"}

====
